---- MODULE Spec2Model ----
(***************************************************************************)
(* State-machine model of bot/plugins/filter/gfilter.py: the channel       *)
(* search handler (search_channels), its batched concurrent scan           *)
(* (process_batch / process_channel), the invite-link provisioner          *)
(* (get_invite_link) with its semaphore, cache check and FloodWait loop,   *)
(* and the error reporter.  Every await of the source that touches shared  *)
(* state (semaphore, database, clock) is a step of its own; code that runs *)
(* between two awaits without touching shared state belongs to the step    *)
(* that precedes it.                                                       *)
(***************************************************************************)
EXTENDS Integers, Sequences, FiniteSets, TLC

\* ------------------------------------------------------------------ bounds
NumChats == 3        \* directory entries
NumQueries == 2      \* messages handled concurrently
MaxTicks == 3        \* the clock stops advancing after this many ticks
MaxFlood == 1        \* FloodWait answers one get_invite_link call may receive
MaxWait == 5         \* largest FloodWait value (seconds)
TickStep == 5        \* the clock is observed every TickStep seconds
StartTime == 20      \* clock value when the first message arrives
batch_size == 2      \* batch_size of search_channels: 10 in the source, scaled
                     \* down so that NumChats entries span several batches

\* ------------------------------------------------------- program constants
SemaphoreCapacity == 3   \* request_semaphore = asyncio.Semaphore(3)
FloodMargin == 5         \* wait_time = int(e.value) + 5
CACHE_DURATION == 10     \* config.CACHE_DURATION (seconds)

MaxTime == StartTime + MaxTicks * TickStep

Chats == 1..NumChats
Procs == 1..NumQueries
Slots == 1..batch_size

\* ------------------------------------------------------------------- text
\* Strings are sequences of one-character strings.
Lower(c) == CASE c = "A" -> "a" [] c = "B" -> "b" [] c = "C" -> "c"
              [] c = "D" -> "d" [] OTHER -> c

lower(s) == [n \in 1..Len(s) |-> Lower(s[n])]

RECURSIVE lstrip(_)
lstrip(s) == IF s # <<>> /\ Head(s) = " " THEN lstrip(Tail(s)) ELSE s

RECURSIVE rstrip(_)
rstrip(s) == IF s # <<>> /\ s[Len(s)] = " "
             THEN rstrip(SubSeq(s, 1, Len(s) - 1)) ELSE s

strip(s) == rstrip(lstrip(s))

\* difflib.SequenceMatcher(None, a, b) without junk: the length of the common
\* run of a and b starting at a[m], b[n] inside a[..ahi], b[..bhi].
RECURSIVE CommonRun(_, _, _, _, _, _)
CommonRun(a, b, m, n, ahi, bhi) ==
    IF m > ahi \/ n > bhi THEN 0
    ELSE IF a[m] # b[n] THEN 0
    ELSE 1 + CommonRun(a, b, m + 1, n + 1, ahi, bhi)

\* find_longest_match: the longest block, earliest in a, then earliest in b.
find_longest_match(a, b, alo, ahi, blo, bhi) ==
    LET pairs == (alo..ahi) \X (blo..bhi)
        size(pr) == CommonRun(a, b, pr[1], pr[2], ahi, bhi)
        best == CHOOSE pr \in pairs :
                  \A o \in pairs :
                     \/ size(o) < size(pr)
                     \/ /\ size(o) = size(pr)
                        /\ \/ pr[1] < o[1]
                           \/ pr[1] = o[1] /\ pr[2] <= o[2]
    IN <<best[1], best[2], size(best)>>

\* get_matching_blocks: total size of the blocks found by recursing to the
\* left and to the right of the longest block.
RECURSIVE matching_size(_, _, _, _, _, _)
matching_size(a, b, alo, ahi, blo, bhi) ==
    IF alo > ahi \/ blo > bhi THEN 0
    ELSE LET blk == find_longest_match(a, b, alo, ahi, blo, bhi)
         IN IF blk[3] = 0 THEN 0
            ELSE blk[3]
                 + matching_size(a, b, alo, blk[1] - 1, blo, blk[2] - 1)
                 + matching_size(a, b, blk[1] + blk[3], ahi, blk[2] + blk[3], bhi)

\* ratio() = 2.0 * matches / (len(a) + len(b)), 1.0 for two empty strings.
\* The quotient is kept as the exact fraction <<numerator, denominator>>.
get_similarity_ratio(str1, str2) ==
    IF Len(str1) + Len(str2) = 0 THEN <<1, 1>>
    ELSE <<2 * matching_size(str1, str2, 1, Len(str1), 1, Len(str2)),
           Len(str1) + Len(str2)>>

\* r > num/den for a fraction r
Above(r, num, den) == r[1] * den > num * r[2]
\* r1 > r2 for two fractions
Greater(r1, r2) == r1[1] * r2[2] > r2[1] * r1[2]


\* ------------------------------------------------------------------ data
NoLink == <<>>                      \* None, a missing field or the empty string
OldLink(c) == <<"old", c>>          \* a link cached before the first message
NewLink(c) == <<"new", c>>          \* a link exported by ExportChatInvite

Txt_Abcd == <<"A", "b", "c", "d">>
Txt_abce == <<"a", "b", "c", "e">>
Txt_Abce == <<"A", "b", "c", "e">>
Txt_abcxyz == <<"a", "b", "c", "x", "y", "z">>
Txt_abcwxyz == <<"a", "b", "c", "w", "x", "y", "z">>

\* message.text of the incoming messages
Texts == { <<"A", "B", "C", "D", " ">>,
           <<"a", "b", "c">>,
           <<" ", "a", "b", " ">> }

\* channel.title answers of bot.get_chat
ChatTitles == { Txt_Abce, Txt_abcxyz, Txt_abcwxyz }

\* answers of bot.invoke(ExportChatInvite) / bot.resolve_peer
InvokeAnswers == { "link", "not_exported", "FloodWait", "ChatAdminRequired",
                   "ChannelInvalid", "CHANNEL_PRIVATE", "RPCError", "Exception" }

\* answers of bot.get_chat
GetChatAnswers == { "chat", "ChannelInvalid", "CHANNEL_PRIVATE", "RPCError",
                    "Exception" }

VARIABLES
    now,                \* time.time()
    request_semaphore,  \* free slots of asyncio.Semaphore(3)
    db,                 \* db.grp: the record of every chat id
    query,              \* one search_channels invocation per message
    task                \* the process_channel coroutines of the running batch

vars == <<now, request_semaphore, db, query, task>>

TaskOff == [pc |-> "off", id |-> 0, title |-> <<>>, similarity |-> <<0, 1>>,
            link |-> NoLink, invokes |-> 0, stores |-> 0, reports |-> 0,
            sent |-> 0, floodAt |-> 0, wait_time |-> 0, result |-> "none"]

QueryIdle == [pc |-> "idle", search_text |-> <<>>, chats |-> <<>>, i |-> 0,
              all_matches |-> <<>>, finished |-> <<>>, outcome |-> "pending",
              best_match |-> <<>>, reports |-> 0, sent |-> 0]

\* The directory when the first message arrives: chat 1 has a cached title
\* and a link cached at StartTime, chat 2 a title and no link, chat 3 a
\* record without title (its title comes from bot.get_chat).
InitialDb ==
    [c \in Chats |->
        [present |-> TRUE,
         has_title |-> c # 3,
         title |-> IF c = 1 THEN Txt_Abcd ELSE IF c = 3 THEN <<>> ELSE Txt_abce,
         link |-> IF c = 1 THEN OldLink(c) ELSE NoLink,
         timestamp |-> IF c = 1 THEN StartTime ELSE 0]]

Init ==
    /\ now = StartTime
    /\ request_semaphore = SemaphoreCapacity
    /\ db = InitialDb
    /\ query = [p \in Procs |-> QueryIdle]
    /\ task = [p \in Procs |-> [k \in Slots |-> TaskOff]]

\* ---------------------------------------------------------------- helpers
\* mutant of report_error: the report is not made
report_error_dropped(r, delivered) == r

\* report_error(bot, error_type, details, chat_id), counted in the record r
\* of the caller; bot.send_message to the log channel delivers the report or
\* fails, and a failure is caught inside report_error and only printed.
report_error(r, delivered) ==
    [r EXCEPT !.reports = @ + 1,
              !.sent = IF delivered THEN @ + 1 ELSE @]

\* cursor.to_list of db.get_all_chats(): the present chats in directory order
RECURSIVE get_all_chats(_, _)
get_all_chats(d, c) ==
    IF c > NumChats THEN <<>>
    ELSE (IF d[c].present THEN <<c>> ELSE <<>>) \o get_all_chats(d, c + 1)

\* db.delete_chat(chat_id)
delete_chat(d, c) == [d EXCEPT ![c].present = FALSE]

\* db.update_link(chat_id, link)
update_link(d, c, link, t) == [d EXCEPT ![c].link = link, ![c].timestamp = t]

\* mutant of cache_fresh: the age of the link is compared the wrong way round
cache_fresh_inverted(rec, t) ==
    /\ rec.present
    /\ rec.link # NoLink
    /\ t - rec.timestamp >= CACHE_DURATION

\* the cache test of get_invite_link on the record read by find_one
cache_fresh(rec, t) ==
    /\ rec.present
    /\ rec.link # NoLink
    /\ t - rec.timestamp < CACHE_DURATION

\* mutant of accepted: the threshold is inclusive
accepted_inclusive(similarity) == similarity[1] * 10 >= 6 * similarity[2]

\* mutant of accepted: every scored candidate is provisioned
accepted_always(similarity) == TRUE

\* similarity > 0.6
accepted(similarity) == Above(similarity, 6, 10)

\* mutant of early_exit: the loop breaks above 0.9
early_exit_90(similarity) == Above(similarity, 9, 10)

\* mutant of early_exit: the loop never breaks
early_exit_never(similarity) == Above(similarity, 10, 10)

\* best_match['similarity'] > 0.8
early_exit(similarity) == Above(similarity, 8, 10)

\* max(matches, key=lambda x: x['similarity']): the first maximal element
get_best_match(matches) ==
    IF matches = <<>> THEN <<>>
    ELSE LET n == CHOOSE n \in 1..Len(matches) :
                    \A m \in 1..Len(matches) :
                       /\ ~Greater(matches[m].similarity, matches[n].similarity)
                       /\ m < n => Greater(matches[n].similarity,
                                           matches[m].similarity)
         IN <<matches[n]>>


\* ------------------------------------------------------- search_channels
\* mutant of process_batch: every batch is sliced from the start of the list
process_batch_restart(chats, i) ==
    [k \in Slots |->
        IF i + k <= Len(chats)
        THEN [TaskOff EXCEPT !.pc = "find", !.id = chats[k]]
        ELSE TaskOff]

\* tasks = [process_channel(bot, chat, search_text) for chat in batch] with
\* batch = chats[i:i + batch_size]
process_batch(chats, i) ==
    [k \in Slots |->
        IF i + k <= Len(chats)
        THEN [TaskOff EXCEPT !.pc = "find", !.id = chats[i + k]]
        ELSE TaskOff]

\* mutant of search_channels_start: the length of the text is not tested
search_channels_start_unchecked(p, text) ==
    /\ query[p].pc = "idle"
    /\ p > 1 => query[p - 1].pc # "idle"
    /\ query' = [query EXCEPT ![p].pc = "list",
                              ![p].search_text = strip(lower(text))]
    /\ UNCHANGED <<now, request_semaphore, db, task>>

\* search_text = message.text.lower().strip(); too short a text returns
\* without a reply.  Messages (of different users) are numbered in the
\* order of their arrival.
search_channels_start(p, text) ==
    /\ query[p].pc = "idle"
    /\ p > 1 => query[p - 1].pc # "idle"
    /\ LET search_text == strip(lower(text))
       IN query' = [query EXCEPT ![p] =
              IF Len(search_text) < 3
              THEN [@ EXCEPT !.pc = "done", !.outcome = "ignored"]
              ELSE [@ EXCEPT !.pc = "list", !.search_text = search_text]]
    /\ UNCHANGED <<now, request_semaphore, db, task>>

\* mutant of search_channels_list: a failing listing counts as an empty
\* directory
search_channels_list_empty(p, ok) ==
    /\ query[p].pc = "list"
    /\ LET chats == IF ok THEN get_all_chats(db, 1) ELSE <<>>
       IN /\ query' = [query EXCEPT
                 ![p].chats = chats,
                 ![p].i = 0,
                 ![p].pc = IF chats = <<>> THEN "reply" ELSE "gather"]
          /\ task' = [task EXCEPT ![p] = process_batch(chats, 0)]
    /\ UNCHANGED <<now, request_semaphore, db>>

\* chats = await cursor.to_list(length=None), then the first turn of the
\* batch loop; a failing listing is caught by the handler's except clause,
\* which reports Search_Error and replies with the generic error text.
search_channels_list(p, ok) ==
    /\ query[p].pc = "list"
    /\ IF ok
       THEN LET chats == get_all_chats(db, 1)
            IN /\ query' = [query EXCEPT
                      ![p].chats = chats,
                      ![p].i = 0,
                      ![p].pc = IF chats = <<>> THEN "reply" ELSE "gather"]
               /\ task' = [task EXCEPT ![p] = process_batch(chats, 0)]
       ELSE /\ \E delivered \in BOOLEAN :
                 query' = [query EXCEPT ![p] =
                      report_error([QueryIdle EXCEPT !.pc = "done",
                                                     !.outcome = "error"],
                                   delivered)]
            /\ UNCHANGED task
    /\ UNCHANGED <<now, request_semaphore, db>>

\* ------------------------------------------------------- process_channel
\* get_similarity_ratio(search_text, title.lower()) for the texts and titles
\* of the model, tabulated once (@@ makes the table an explicit function)
Ratios ==
    [x \in {strip(lower(t)) : t \in Texts}
           \X {lower(c) : c \in ChatTitles \cup {Txt_Abcd, Txt_abce}}
       |-> get_similarity_ratio(x[1], x[2])] @@ <<>>

\* the task record after title was found: similarity and the 0.6 threshold
scored(t, search_text, title) ==
    LET similarity == IF <<search_text, title>> \in DOMAIN Ratios
                      THEN Ratios[<<search_text, title>>]
                      ELSE get_similarity_ratio(search_text, title)
    IN [t EXCEPT !.title = title,
                 !.similarity = similarity,
                 !.pc = IF accepted(similarity) THEN "acquire" ELSE "done"]

\* the coroutine of slot k ends: gather notes its result
Finished(p, k, t) ==
    /\ task' = [task EXCEPT ![p][k] = t]
    /\ query' = [query EXCEPT ![p].finished =
                     IF t.pc = "done" THEN Append(@, k) ELSE @]

\* db_chat = await db.grp.find_one({"id": chat['id']}) and, with a cached
\* title, the scoring
process_channel_find(p, k) ==
    /\ task[p][k].pc = "find"
    /\ LET t == task[p][k]
           db_chat == db[t.id]
       IN IF db_chat.present /\ db_chat.has_title
          THEN Finished(p, k, scored(t, query[p].search_text, lower(db_chat.title)))
          ELSE Finished(p, k, [t EXCEPT !.pc = "get_chat"])
    /\ UNCHANGED <<now, request_semaphore, db>>

\* mutant of process_channel_get_chat: every RPCError removes the chat
process_channel_get_chat_prunes(p, k, answer, title) ==
    /\ task[p][k].pc = "get_chat"
    /\ LET t == task[p][k]
       IN CASE answer = "chat" ->
                 /\ Finished(p, k, scored(t, query[p].search_text, lower(title)))
                 /\ UNCHANGED db
            [] answer \in {"ChannelInvalid", "CHANNEL_PRIVATE"} ->
                 /\ title = Txt_Abce
                 /\ \E delivered \in BOOLEAN :
                      Finished(p, k, report_error([t EXCEPT !.pc = "done"],
                                                  delivered))
                 /\ db' = delete_chat(db, t.id)
            [] answer = "RPCError" ->
                 /\ title = Txt_Abce
                 /\ \E delivered \in BOOLEAN :
                      Finished(p, k, report_error([t EXCEPT !.pc = "done"],
                                                  delivered))
                 /\ db' = delete_chat(db, t.id)
            [] OTHER ->
                 /\ title = Txt_Abce
                 /\ Finished(p, k, [t EXCEPT !.pc = "done", !.result = "exception"])
                 /\ UNCHANGED db
    /\ UNCHANGED <<now, request_semaphore>>

\* channel = await bot.get_chat(chat['id']) with the except clauses of
\* process_channel; an exception that is no RPCError leaves the coroutine.
process_channel_get_chat(p, k, answer, title) ==
    /\ task[p][k].pc = "get_chat"
    /\ LET t == task[p][k]
       IN CASE answer = "chat" ->
                 /\ Finished(p, k, scored(t, query[p].search_text, lower(title)))
                 /\ UNCHANGED db
            [] answer \in {"ChannelInvalid", "CHANNEL_PRIVATE"} ->
                 /\ title = Txt_Abce
                 /\ \E delivered \in BOOLEAN :
                      Finished(p, k, report_error([t EXCEPT !.pc = "done"],
                                                  delivered))
                 /\ db' = delete_chat(db, t.id)
            [] answer = "RPCError" ->
                 /\ title = Txt_Abce
                 /\ \E delivered \in BOOLEAN :
                      Finished(p, k, report_error([t EXCEPT !.pc = "done"],
                                                  delivered))
                 /\ UNCHANGED db
            [] OTHER ->
                 /\ title = Txt_Abce
                 /\ Finished(p, k, [t EXCEPT !.pc = "done", !.result = "exception"])
                 /\ UNCHANGED db
    /\ UNCHANGED <<now, request_semaphore>>


\* ------------------------------------------------------- get_invite_link
\* mutant of locked: the semaphore never blocks
locked_never(sem) == FALSE

\* mutant of release: leaving the with block does not free the slot
release_lost(sem) == sem

\* asyncio.Semaphore.locked(): no slot is free
locked(sem) == sem <= 0

\* asyncio.Semaphore.release(), run when the with block is left
release(sem) == sem + 1

\* async with request_semaphore: entered when a slot is free
get_invite_link_acquire(p, k) ==
    /\ task[p][k].pc = "acquire"
    /\ ~locked(request_semaphore)
    /\ request_semaphore' = request_semaphore - 1
    /\ task' = [task EXCEPT ![p][k].pc = "cache"]
    /\ UNCHANGED <<now, db, query>>

\* chat_data = await db.grp.find_one(...): a fresh cached link is returned
\* (leaving the with block frees the slot); otherwise the first
\* ExportChatInvite call is sent.
get_invite_link_cache(p, k) ==
    /\ task[p][k].pc = "cache"
    /\ LET t == task[p][k]
           chat_data == db[t.id]
       IN IF cache_fresh(chat_data, now)
          THEN /\ Finished(p, k, [t EXCEPT !.pc = "done",
                                           !.link = chat_data.link,
                                           !.result = "dict"])
               /\ request_semaphore' = release(request_semaphore)
          ELSE /\ Finished(p, k, [t EXCEPT !.pc = "invoke", !.invokes = 1])
               /\ UNCHANGED request_semaphore
    /\ UNCHANGED <<now, db>>

\* asyncio.sleep(wait_time) of the FloodWait clause ends at this time
wake_time(t) == t.floodAt + t.wait_time

\* mutant of flood_wait_time: the margin is left out
flood_wait_time_bare(value) == value

\* wait_time = int(e.value) + 5
flood_wait_time(value) == value + FloodMargin

\* mutant of exported: the link is returned without being stored
exported_unsaved(d, t, time) ==
    [db |-> d,
     task |-> [t EXCEPT !.pc = "done", !.link = NewLink(t.id), !.result = "dict"]]

\* isinstance(invite_link, ChatInviteExported) and invite_link.link:
\* await db.update_link(chat_id, invite_link.link); return invite_link.link
exported(d, t, time) ==
    [db |-> update_link(d, t.id, NewLink(t.id), time),
     task |-> [t EXCEPT !.pc = "done", !.stores = @ + 1,
                        !.link = NewLink(t.id), !.result = "dict"]]

\* the answer to bot.invoke(ExportChatInvite(...)) and the code after it up
\* to the return or to the sleep of the FloodWait clause
get_invite_link_answer(p, k, answer, value) ==
    /\ task[p][k].pc = "invoke"
    /\ LET t == task[p][k]
       IN CASE answer = "link" ->
                 /\ value = 0
                 /\ db' = exported(db, t, now).db
                 /\ Finished(p, k, exported(db, t, now).task)
                 /\ request_semaphore' = release(request_semaphore)
            [] answer = "FloodWait" ->
                 /\ value = MaxWait
                 \* bounds: at most MaxFlood FloodWait answers per call, and
                 \* none whose sleep would end after the clock has stopped
                 /\ t.invokes <= MaxFlood
                 /\ now + flood_wait_time(value) <= MaxTime
                 /\ Finished(p, k, [t EXCEPT !.pc = "sleep",
                                             !.floodAt = now,
                                             !.wait_time = flood_wait_time(value)])
                 /\ UNCHANGED <<db, request_semaphore>>
            [] answer = "ChatAdminRequired" ->
                 /\ value = 0
                 /\ \E delivered \in BOOLEAN :
                      Finished(p, k, report_error([t EXCEPT !.pc = "done"],
                                                  delivered))
                 /\ request_semaphore' = release(request_semaphore)
                 /\ UNCHANGED db
            [] OTHER ->
                 /\ value = 0
                 /\ Finished(p, k, [t EXCEPT !.pc = "done"])
                 /\ request_semaphore' = release(request_semaphore)
                 /\ UNCHANGED db
    /\ UNCHANGED now

\* the sleep is over: the while loop sends ExportChatInvite again
get_invite_link_wake(p, k) ==
    /\ task[p][k].pc = "sleep"
    /\ now >= wake_time(task[p][k])
    /\ task' = [task EXCEPT ![p][k].pc = "invoke",
                            ![p][k].invokes = @ + 1,
                            ![p][k].floodAt = 0,
                            ![p][k].wait_time = 0]
    /\ UNCHANGED <<now, request_semaphore, db, query>>

\* --------------------------------------------------------- process_batch
\* the dict process_channel returns
match_of(t) == [id |-> t.id, title |-> t.title, link |-> t.link,
                similarity |-> t.similarity]

\* mutant of gather: the results in the order in which the coroutines ended
RECURSIVE gather_as_completed(_, _, _)
gather_as_completed(tasks, finished, k) ==
    IF k > Len(finished) THEN <<>>
    ELSE (IF tasks[finished[k]].result = "dict"
          THEN <<[id |-> tasks[finished[k]].id,
                  title |-> tasks[finished[k]].title,
                  link |-> tasks[finished[k]].link,
                  similarity |-> tasks[finished[k]].similarity]>>
          ELSE <<>>)
         \o gather_as_completed(tasks, finished, k + 1)

\* mutant of gather: the results that are not dicts are kept too
RECURSIVE gather_unfiltered(_, _, _)
gather_unfiltered(tasks, finished, k) ==
    IF k > batch_size THEN <<>>
    ELSE (IF tasks[k].pc = "done"
          THEN <<[id |-> tasks[k].id, title |-> tasks[k].title,
                  link |-> tasks[k].link,
                  similarity |-> tasks[k].similarity]>>
          ELSE <<>>)
         \o gather_unfiltered(tasks, finished, k + 1)

\* results = await asyncio.gather(*tasks, return_exceptions=True);
\* [r for r in results if isinstance(r, dict)]: in the order of the tasks
RECURSIVE gather(_, _, _)
gather(tasks, finished, k) ==
    IF k > batch_size THEN <<>>
    ELSE (IF tasks[k].pc = "done" /\ tasks[k].result = "dict"
          THEN <<match_of(tasks[k])>> ELSE <<>>)
         \o gather(tasks, finished, k + 1)

\* all coroutines of the batch ended: all_matches.extend(results), the
\* early exit test and the next turn of the loop
process_batch_gather(p) ==
    /\ query[p].pc = "gather"
    /\ \A k \in Slots : task[p][k].pc \in {"off", "done"}
    /\ \E all_matches \in {query[p].all_matches
                              \o gather(task[p], query[p].finished, 1)} :
       \E best_match \in {get_best_match(all_matches)} :
       LET q == query[p]
           break == best_match # <<>> /\ early_exit(best_match[1].similarity)
           more == ~break /\ q.i + batch_size < Len(q.chats)
       IN /\ query' = [query EXCEPT
                 ![p].all_matches = all_matches,
                 ![p].i = IF more THEN q.i + batch_size ELSE q.i,
                 ![p].finished = IF more THEN <<>> ELSE q.finished,
                 ![p].pc = IF more THEN "gather" ELSE "reply"]
          /\ task' = [task EXCEPT ![p] =
                 IF more THEN process_batch(q.chats, q.i + batch_size)
                 ELSE [k \in Slots |-> TaskOff]]
    /\ UNCHANGED <<now, request_semaphore, db>>

\* best_match = get_best_match(all_matches) and the reply
search_channels_reply(p) ==
    /\ query[p].pc = "reply"
    /\ LET best_match == get_best_match(query[p].all_matches)
       IN query' = [query EXCEPT ![p] =
              [QueryIdle EXCEPT
                  !.pc = "done",
                  !.all_matches = query[p].all_matches,
                  !.finished = query[p].finished,
                  !.best_match = best_match,
                  !.outcome = IF best_match # <<>> THEN "match" ELSE "no_match"]]
    /\ UNCHANGED <<now, request_semaphore, db, task>>

\* ------------------------------------------------------------------ clock
Tick ==
    /\ now < MaxTime
    /\ now' = now + TickStep
    /\ UNCHANGED <<request_semaphore, db, query, task>>

Next ==
    \/ \E p \in Procs, text \in Texts : search_channels_start(p, text)
    \/ \E p \in Procs, ok \in BOOLEAN : search_channels_list(p, ok)
    \/ \E p \in Procs, k \in Slots : process_channel_find(p, k)
    \/ \E p \in Procs, k \in Slots, answer \in GetChatAnswers, title \in ChatTitles :
          process_channel_get_chat(p, k, answer, title)
    \/ \E p \in Procs, k \in Slots : get_invite_link_acquire(p, k)
    \/ \E p \in Procs, k \in Slots : get_invite_link_cache(p, k)
    \/ \E p \in Procs, k \in Slots, answer \in InvokeAnswers, value \in {0, MaxWait} :
          get_invite_link_answer(p, k, answer, value)
    \/ \E p \in Procs, k \in Slots : get_invite_link_wake(p, k)
    \/ \E p \in Procs : process_batch_gather(p)
    \/ \E p \in Procs : search_channels_reply(p)
    \/ Tick

Spec == Init /\ [][Next]_vars

\* The event loop resumes every coroutine that can run, the clock advances
\* and every request sent to Telegram is answered.
Fairness ==
    /\ WF_vars(Tick)
    /\ \A p \in Procs, k \in Slots :
          /\ WF_vars(get_invite_link_wake(p, k))
          /\ WF_vars(\E answer \in InvokeAnswers, value \in {0, MaxWait} :
                        get_invite_link_answer(p, k, answer, value))

\* The behaviours in which the last message never arrives, with fairness:
\* the specification of the liveness properties of a single scan.
LiveSpec ==
    /\ Init
    /\ [][Next /\ query'[NumQueries].pc = "idle"]_vars
    /\ Fairness

\* One step of the event loop, of an answer from Telegram or the database, or
\* of the clock: every step but the arrival of a message.
Scheduled ==
    \/ \E p \in Procs, ok \in BOOLEAN : search_channels_list(p, ok)
    \/ \E p \in Procs, k \in Slots : process_channel_find(p, k)
    \/ \E p \in Procs, k \in Slots, answer \in GetChatAnswers, title \in ChatTitles :
          process_channel_get_chat(p, k, answer, title)
    \/ \E p \in Procs, k \in Slots : get_invite_link_acquire(p, k)
    \/ \E p \in Procs, k \in Slots : get_invite_link_cache(p, k)
    \/ \E p \in Procs, k \in Slots, answer \in InvokeAnswers, value \in {0, MaxWait} :
          get_invite_link_answer(p, k, answer, value)
    \/ \E p \in Procs, k \in Slots : get_invite_link_wake(p, k)
    \/ \E p \in Procs : process_batch_gather(p)
    \/ \E p \in Procs : search_channels_reply(p)
    \/ Tick

\* every message reads "abc" and the log channel takes every report
SameText ==
    \A p \in Procs :
       /\ query'[p].outcome # "ignored"
       /\ query'[p].search_text \in {<<>>, <<"a", "b", "c">>}
       /\ query'[p].sent = query'[p].reports
       /\ \A k \in Slots : task'[p][k].sent = task'[p][k].reports

\* The behaviours of concurrent scans of the same text under a fair event
\* loop: a coroutine that can run is resumed, every request is answered and
\* the clock advances, so a step other than a message's arrival is taken
\* whenever one is possible.
FairSpec ==
    /\ Init
    /\ [][Next /\ SameText]_vars
    /\ WF_vars(Scheduled)


\* ================================================================ claims
Tasks == Procs \X Slots
T(pk) == task[pk[1]][pk[2]]

\* the get_invite_link calls between acquire and return
Holders == {pk \in Tasks : T(pk).pc \in {"cache", "invoke", "sleep"}}
\* the ExportChatInvite calls in flight
InFlight == {pk \in Tasks : T(pk).pc = "invoke"}

\* C1: a get_invite_link call that finds a present, non-empty cached link of
\* age now - timestamp < CACHE_DURATION returns that link, sends no
\* ExportChatInvite and stores nothing.
C1_FreshCacheIsReturned ==
    [][\A pk \in Tasks :
         LET t == T(pk)
             rec == db[t.id]
             t2 == task'[pk[1]][pk[2]]
         IN (/\ t.pc = "cache"
             /\ t2 # t
             /\ rec.present
             /\ rec.link # NoLink
             /\ now - rec.timestamp < CACHE_DURATION)
            => /\ t2.pc = "done"
               /\ t2.link = rec.link
               /\ t2.invokes = 0
               /\ t2.stores = 0
               /\ db' = db]_vars

\* a finished call that returned the cached link without any external call
C1_Witness ==
    \E pk \in Tasks :
       /\ T(pk).pc = "done"
       /\ T(pk).link = OldLink(T(pk).id)
       /\ T(pk).invokes = 0
       /\ T(pk).stores = 0

\* C2: a call that went past the cache test has stored exactly one link when
\* it has returned a link (also after FloodWait retries) and has stored
\* nothing while it runs or when it returned None.
C2_OneStorePerIssuedLink ==
    \A pk \in Tasks :
       LET t == T(pk)
       IN t.invokes >= 1 =>
            /\ (t.pc = "done" /\ t.link # NoLink) => t.stores = 1
            /\ (t.pc # "done" \/ t.link = NoLink) => t.stores = 0
            /\ (t.pc = "done" /\ t.link # NoLink) =>
                  /\ db[t.id].link = t.link
                  /\ db[t.id].timestamp <= now

\* one call that was throttled, retried, stored once and returned the link,
\* and one that returned None without a store
C2_Witness ==
    /\ \E pk \in Tasks :
          /\ T(pk).pc = "done" /\ T(pk).invokes = 2
          /\ T(pk).stores = 1 /\ T(pk).link = NewLink(T(pk).id)
    /\ \E pk \in Tasks :
          /\ T(pk).pc = "done" /\ T(pk).invokes >= 1
          /\ T(pk).stores = 0 /\ T(pk).link = NoLink

\* C3: at most SemaphoreCapacity (3) ExportChatInvite calls are in flight,
\* and each of them is made by a call that holds one of the taken slots.
C3_InFlightWithinCapacity ==
    /\ Cardinality(InFlight) <= SemaphoreCapacity
    /\ InFlight \subseteq Holders
    /\ Cardinality(Holders) = SemaphoreCapacity - request_semaphore
    /\ request_semaphore >= 0

\* three calls of two different messages in flight, a fourth call waiting
C3_Witness ==
    /\ Cardinality(InFlight) = SemaphoreCapacity
    /\ \E pk \in InFlight : pk[1] = 1
    /\ \E pk \in InFlight : pk[1] = 2
    /\ \E pk \in Tasks : T(pk).pc = "acquire"
    /\ request_semaphore = 0

\* C4: the free slots are the capacity minus the calls between acquire and
\* return; with no call in progress all slots are free.
C4_SlotsReleasedOnEveryExit ==
    /\ request_semaphore = SemaphoreCapacity - Cardinality(Holders)
    /\ Holders = {} => request_semaphore = SemaphoreCapacity

\* all slots free after calls have left by a cache hit, by a stored link, by
\* a reported ChatAdminRequired and by an unreported failure
C4_Witness ==
    /\ Holders = {}
    /\ request_semaphore = SemaphoreCapacity
    /\ \E pk \in Tasks : T(pk).pc = "done" /\ T(pk).invokes = 0 /\ T(pk).link # NoLink
    /\ \E pk \in Tasks : T(pk).pc = "done" /\ T(pk).stores = 1
    /\ \E pk \in Tasks : T(pk).pc = "done" /\ T(pk).invokes >= 1 /\ T(pk).reports = 1
    /\ \E pk \in Tasks : /\ T(pk).pc = "done" /\ T(pk).invokes >= 1
                         /\ T(pk).reports = 0 /\ T(pk).link = NoLink


\* C5 (as claimed): a call sleeping in the FloodWait back-off holds no slot,
\* so the taken slots are exactly the calls reading the cache or waiting for
\* an answer.
C5_NoSlotHeldWhileSleeping ==
    request_semaphore =
        SemaphoreCapacity
        - Cardinality({pk \in Tasks : T(pk).pc \in {"cache", "invoke"}})

\* C6: a FloodWait answer puts the call to sleep (it never returns None), the
\* sleep lasts at least the signalled wait plus the margin of 5, the call
\* then sends ExportChatInvite again, a link answer after any number of
\* FloodWait answers is returned, and a sleeping call eventually returns.
C6_ThrottleNeverDrops ==
    /\ [][\A pk \in Tasks :
            LET t == T(pk)
                t2 == task'[pk[1]][pk[2]]
            IN /\ (t.pc = "sleep" /\ t2.pc # "sleep")
                    => /\ t2.pc = "invoke"
                       /\ t2.invokes = t.invokes + 1
                       /\ now - t.floodAt >= MaxWait + 5
               /\ get_invite_link_answer(pk[1], pk[2], "FloodWait", MaxWait)
                    => /\ t2.pc = "sleep"
                       /\ t2.result = "none"
                       /\ db' = db
               /\ get_invite_link_answer(pk[1], pk[2], "link", 0)
                    => /\ t2.pc = "done"
                       /\ t2.link = NewLink(t.id)
                       /\ t2.result = "dict"]_vars
    /\ \A pk \in Tasks : (T(pk).pc = "sleep") ~> (T(pk).pc = "done")

\* a call that was throttled, slept, asked again and returned the link
C6_Witness ==
    \E pk \in Tasks :
       /\ T(pk).pc = "done"
       /\ T(pk).invokes = MaxFlood + 1
       /\ T(pk).result = "dict"
       /\ T(pk).link = NewLink(T(pk).id)
       /\ now >= StartTime + MaxWait + FloodMargin

\* C7 (as claimed): a ChannelInvalid answer to ExportChatInvite removes the
\* chat from the directory and is reported.
C7_InvalidResourceIsPruned ==
    [][\A pk \in Tasks :
         get_invite_link_answer(pk[1], pk[2], "ChannelInvalid", 0)
            => /\ ~db'[T(pk).id].present
               /\ task'[pk[1]][pk[2]].reports = T(pk).reports + 1]_vars

\* C8: a ChatAdminRequired answer is reported once, the call returns None,
\* nothing is stored and the chat stays in the directory; a candidate whose
\* call returned None is in no match of the scan.
C8_PermissionDeniedIsReportedOnly ==
    [][/\ \A pk \in Tasks :
            LET t == T(pk)
                t2 == task'[pk[1]][pk[2]]
            IN get_invite_link_answer(pk[1], pk[2], "ChatAdminRequired", 0)
                 => /\ t2.reports = t.reports + 1
                    /\ t2.pc = "done"
                    /\ t2.link = NoLink
                    /\ t2.result = "none"
                    /\ t2.stores = t.stores
                    /\ db' = db
       /\ \A p \in Procs :
            process_batch_gather(p)
              => \A k \in Slots :
                    (task[p][k].pc = "done" /\ task[p][k].link = NoLink)
                      => \A n \in 1..Len(query'[p].all_matches) :
                            query'[p].all_matches[n].id # task[p][k].id]_vars

\* a call that ended with one report, no link and no store; the chat is
\* still in the directory
C8_Witness ==
    \E pk \in Tasks :
       /\ T(pk).pc = "done"
       /\ T(pk).invokes >= 1
       /\ T(pk).reports = 1
       /\ T(pk).link = NoLink
       /\ T(pk).stores = 0
       /\ db[T(pk).id].present

\* a batch is gathered in which some candidate scored above 0.9
ScoredAbove90(p) ==
    \E k \in Slots : task[p][k].pc = "done" /\ Above(task[p][k].similarity, 9, 10)

\* a batch is gathered in which some candidate scored above 0.9 got a link
ProvisionedAbove90(p) ==
    \E k \in Slots : /\ task[p][k].pc = "done"
                     /\ task[p][k].result = "dict"
                     /\ Above(task[p][k].similarity, 9, 10)

\* C9 (as claimed): once any candidate of a batch scores above 0.9, no later
\* batch is scanned.
C9_EarlyExitOnAnyScore ==
    [][\A p \in Procs :
         (process_batch_gather(p) /\ ScoredAbove90(p))
            => /\ query'[p].pc = "reply"
               /\ \A k \in Slots : task'[p][k].pc = "off"]_vars

\* C9 (amended): once a candidate of a batch that obtained a link scores
\* above 0.9, no later batch is scanned.
C9_EarlyExitOnProvisionedScore ==
    [][\A p \in Procs :
         (process_batch_gather(p) /\ ProvisionedAbove90(p))
            => /\ query'[p].pc = "reply"
               /\ \A k \in Slots : task'[p][k].pc = "off"]_vars

\* the scan stopped with a match above 0.9 while a batch was left unscanned
C9_Witness ==
    \E p \in Procs :
       /\ query[p].pc = "reply"
       /\ query[p].i + batch_size < Len(query[p].chats)
       /\ \E n \in 1..Len(query[p].all_matches) :
             Above(query[p].all_matches[n].similarity, 9, 10)

\* two fractions are the same score
SameScore(r1, r2) == ~Greater(r1, r2) /\ ~Greater(r2, r1)

\* C10: the match replied has the highest similarity of all matches and, of
\* the matches with that similarity, is the first in directory order
\* (ascending chat id), whatever the order in which the coroutines ended.
C10_TieKeepsDirectoryOrder ==
    \A p \in Procs :
       (query[p].pc = "done" /\ query[p].outcome = "match") =>
          LET b == query[p].best_match[1]
              all == query[p].all_matches
          IN /\ \E n \in 1..Len(all) : all[n] = b
             /\ \A n \in 1..Len(all) :
                   /\ ~Greater(all[n].similarity, b.similarity)
                   /\ SameScore(all[n].similarity, b.similarity) => b.id <= all[n].id

\* two matches of one batch tie, the later chat's coroutine ended first and
\* the earlier chat is replied
C10_Witness ==
    \E p \in Procs :
       /\ query[p].pc = "done"
       /\ query[p].outcome = "match"
       /\ Len(query[p].all_matches) = 2
       /\ Len(query[p].finished) = 2
       /\ query[p].finished[1] = 2
       /\ SameScore(query[p].all_matches[1].similarity,
                    query[p].all_matches[2].similarity)
       /\ query[p].all_matches[1].id < query[p].all_matches[2].id
       /\ query[p].best_match[1].id = query[p].all_matches[1].id


\* the candidates of the running batches whose title was scored
Scored == {pk \in Tasks : T(pk).pc # "off" /\ T(pk).title # <<>>}

\* get_invite_link was called for the candidate
Provisioning(t) ==
    \/ t.pc \in {"acquire", "cache", "invoke", "sleep"}
    \/ t.invokes >= 1
    \/ t.link # NoLink

\* C11: get_invite_link is called for every scored candidate whose similarity
\* is above 0.6 (so for 0.61) and for no candidate whose similarity is
\* exactly 0.6 or lower.
C11_AcceptanceBoundaryExclusive ==
    \A pk \in Scored :
       LET t == T(pk)
       IN /\ t.similarity[1] * 100 > 60 * t.similarity[2] => Provisioning(t)
          /\ t.similarity[1] * 100 <= 60 * t.similarity[2]
               => (~Provisioning(t) /\ t.pc = "done" /\ t.result = "none")

\* one candidate scored exactly 0.6 and was not provisioned while another one
\* scored above 0.6 and was
C11_Witness ==
    /\ \E pk \in Scored :
          /\ T(pk).similarity[1] * 100 = 60 * T(pk).similarity[2]
          /\ T(pk).pc = "done"
          /\ ~Provisioning(T(pk))
    /\ \E pk \in Scored :
          /\ T(pk).similarity[1] * 100 > 60 * T(pk).similarity[2]
          /\ Provisioning(T(pk))

\* s contains tok as a contiguous run
Contains(s, tok) ==
    \E n \in 1..(Len(s) - Len(tok) + 1) : SubSeq(s, n, n + Len(tok) - 1) = tok

\* the whitespace-delimited tokens of s
Tokens(s) ==
    {SubSeq(s, a, b) : a \in 1..Len(s), b \in 1..Len(s)} \cap
    {tok \in UNION {[1..n -> {s[m] : m \in 1..Len(s)} \ {" "}] : n \in 1..Len(s)} :
        \E a \in 1..Len(s) :
           /\ a + Len(tok) - 1 <= Len(s)
           /\ SubSeq(s, a, a + Len(tok) - 1) = tok
           /\ (a = 1 \/ s[a - 1] = " ")
           /\ (a + Len(tok) - 1 = Len(s) \/ s[a + Len(tok)] = " ")}

\* some query token longer than 2 characters appears literally in the title
KeywordHit(search_text, title) ==
    \E tok \in Tokens(search_text) : Len(tok) > 2 /\ Contains(title, tok)

\* C12 (as claimed): get_invite_link is called for a scored candidate if and
\* only if its similarity is above 0.6 or it has a keyword hit.
C12_KeywordHitQualifies ==
    \A pk \in Scored :
       Provisioning(T(pk)) <=>
          \/ Above(T(pk).similarity, 6, 10)
          \/ KeywordHit(query[pk[1]].search_text, T(pk).title)

\* C12 (amended): get_invite_link is called for a scored candidate if and only
\* if its similarity is above 0.6; a candidate with a keyword hit whose
\* similarity is not above 0.6 is dropped without a call.
C12_OnlyScoreQualifies ==
    \A pk \in Scored :
       /\ Provisioning(T(pk)) <=> Above(T(pk).similarity, 6, 10)
       /\ (/\ KeywordHit(query[pk[1]].search_text, T(pk).title)
           /\ ~Above(T(pk).similarity, 6, 10))
            => (T(pk).pc = "done" /\ T(pk).result = "none" /\ T(pk).invokes = 0)

\* a candidate with a keyword hit and a similarity not above 0.6 was dropped
C12_Witness ==
    \E pk \in Scored :
       /\ KeywordHit(query[pk[1]].search_text, T(pk).title)
       /\ ~Above(T(pk).similarity, 6, 10)
       /\ T(pk).pc = "done"
       /\ ~Provisioning(T(pk))


\* the candidate of task t is the n-th match of the sequence all
IsMatch(all, n, t) ==
    /\ all[n].id = t.id
    /\ all[n].similarity = t.similarity
    /\ all[n].link = t.link

\* C13: a match that is replied has a similarity above 0.6, a non-empty link
\* and the highest similarity of all candidates of the scanned batches that
\* obtained a link; "no match" is replied exactly when no scanned candidate
\* above 0.6 obtained a link.
C13_NoLowConfidenceReply ==
    /\ [](\A p \in Procs :
            query[p].pc = "done" =>
               LET all == query[p].all_matches
               IN /\ query[p].outcome = "match" =>
                       /\ Len(query[p].best_match) = 1
                       /\ Above(query[p].best_match[1].similarity, 6, 10)
                       /\ query[p].best_match[1].link # NoLink
                       /\ \E n \in 1..Len(all) : all[n] = query[p].best_match[1]
                       /\ \A n \in 1..Len(all) :
                             ~Greater(all[n].similarity,
                                      query[p].best_match[1].similarity)
                  /\ query[p].outcome = "no_match" => all = <<>>)
    /\ [][\A p \in Procs :
            process_batch_gather(p) =>
               LET old == query[p].all_matches
                   new == query'[p].all_matches
               IN /\ SubSeq(new, 1, Len(old)) = old
                  /\ \A n \in (Len(old) + 1)..Len(new) :
                        \E k \in Slots : IsMatch(new, n, task[p][k])
                  /\ \A k \in Slots :
                        (\E n \in (Len(old) + 1)..Len(new) :
                            IsMatch(new, n, task[p][k]))
                        <=> /\ task[p][k].pc = "done"
                            /\ Above(task[p][k].similarity, 6, 10)
                            /\ task[p][k].link # NoLink]_vars

\* a reply with the better of two matches of different similarity
C13_Witness ==
    \E p \in Procs :
       /\ query[p].pc = "done"
       /\ query[p].outcome = "match"
       /\ Len(query[p].all_matches) = 2
       /\ Greater(query[p].all_matches[1].similarity,
                  query[p].all_matches[2].similarity)
       /\ query[p].best_match[1] = query[p].all_matches[1]


\* the message text normalises to fewer than 3 characters
TooShort(text) == Len(strip(lower(text))) < 3

\* C14 (as claimed): a text that normalises to fewer than 3 characters gets
\* the "no match" reply; the directory is not listed and no candidate is
\* processed.
C14_ShortQueryRepliesNoMatch ==
    [][\A p \in Procs : \A text \in Texts :
         (search_channels_start(p, text) /\ TooShort(text))
            => /\ query'[p].pc = "done"
               /\ query'[p].outcome = "no_match"
               /\ UNCHANGED <<db, task, request_semaphore>>]_vars

\* C14 (amended): a text that normalises to fewer than 3 characters ends the
\* handler with no reply at all (neither "no match" nor an error reply) and
\* no report; the directory is never listed for it and no candidate is
\* processed; a text of 3 or more characters goes on to the listing.
C14_ShortQueryIsIgnored ==
    [][\A p \in Procs :
         /\ \A text \in Texts :
              search_channels_start(p, text)
                 => /\ UNCHANGED <<db, task, request_semaphore>>
                    /\ IF TooShort(text)
                       THEN /\ query'[p].pc = "done"
                            /\ query'[p].outcome = "ignored"
                            /\ query'[p].reports = 0
                       ELSE query'[p].pc = "list"
         /\ query[p].outcome = "ignored"
              => /\ query'[p] = query[p]
                 /\ query[p].chats = <<>>
                 /\ \A k \in Slots : task'[p][k].pc = "off"]_vars

\* a message with too short a text was dropped while another message's
\* candidates are being processed
C14_Witness ==
    \E p \in Procs :
       /\ query[p].pc = "done"
       /\ query[p].outcome = "ignored"
       /\ query[p].chats = <<>>
       /\ \A k \in Slots : task[p][k].pc = "off"
       /\ \E p2 \in Procs : query[p2].pc = "gather"


\* C15: a failing directory listing is reported exactly once (whether or not
\* the log channel takes the report), the handler ends with the generic error
\* reply, which is not the "no match" reply, and nothing else changes; no
\* other outcome of the handler carries a report.
C15_ListingFailureIsReportedOnce ==
    /\ [][\A p \in Procs :
            /\ search_channels_list(p, FALSE)
                 => /\ query'[p].pc = "done"
                    /\ query'[p].outcome = "error"
                    /\ query'[p].reports = 1
                    /\ query'[p].sent \in {0, 1}
                    /\ UNCHANGED <<db, task, request_semaphore>>
            /\ query[p].outcome = "error" => query'[p] = query[p]]_vars
    /\ [](\A p \in Procs :
            /\ query[p].outcome = "error"
                 => /\ query[p].pc = "done"
                    /\ query[p].reports = 1
                    /\ query[p].best_match = <<>>
            /\ query[p].outcome # "error" => query[p].reports = 0)

\* the listing failed, the log channel refused the report and the handler
\* ended with the generic error reply
C15_Witness ==
    \E p \in Procs :
       /\ query[p].pc = "done"
       /\ query[p].outcome = "error"
       /\ query[p].reports = 1
       /\ query[p].sent = 0


\* C16 (as claimed): a failure outside the known classes, raised by
\* bot.get_chat or by bot.invoke for one candidate, is reported, ends only
\* that candidate without a link and leaves the other candidates and the
\* scan as they are.
C16_UnknownFailureIsReported ==
    [][\A pk \in Tasks :
         LET t == T(pk)
             t2 == task'[pk[1]][pk[2]]
         IN (\/ process_channel_get_chat(pk[1], pk[2], "Exception", Txt_Abce)
             \/ get_invite_link_answer(pk[1], pk[2], "Exception", 0))
              => /\ t2.reports = t.reports + 1
                 /\ t2.pc = "done"
                 /\ t2.link = NoLink
                 /\ \A pk2 \in Tasks \ {pk} : task'[pk2[1]][pk2[2]] = T(pk2)
                 /\ \A p \in Procs : query'[p].pc = query[p].pc
                 /\ db' = db]_vars


\* C17 (as claimed): a get_invite_link call for a chat whose cached link is
\* fresh is never kept waiting by the semaphore: while it has not yet read
\* the cache, a slot is free for it.
C17_FreshCacheNeverBlocked ==
    \A pk \in Tasks :
       (T(pk).pc = "acquire" /\ cache_fresh(db[T(pk).id], now))
          => ~locked(request_semaphore)


\* some match of the sequence all has a similarity above num/den
SomeAbove(all, num, den) ==
    \E n \in 1..Len(all) : Above(all[n].similarity, num, den)

\* the batch gathered by message p is not the last one of its listing
NotLastBatch(p) == query[p].i + batch_size < Len(query[p].chats)

\* the scan of message p goes on with the next batch
NextBatchScanned(p) ==
    /\ query'[p].pc = "gather"
    /\ query'[p].i = query[p].i + batch_size
    /\ \A k \in Slots :
          (query'[p].i + k <= Len(query[p].chats))
             => /\ task'[p][k].pc = "find"
                /\ task'[p][k].id = query[p].chats[query'[p].i + k]

\* C18 (as claimed): after each batch but the last the scan stops exactly
\* when some match so far has a similarity above 0.9, and otherwise goes on
\* with the next batch.
C18_EarlyExitAbove90 ==
    [][\A p \in Procs :
         (process_batch_gather(p) /\ NotLastBatch(p))
            => IF SomeAbove(query'[p].all_matches, 9, 10)
               THEN query'[p].pc = "reply"
               ELSE NextBatchScanned(p)]_vars

\* C18 (amended): after each batch but the last the scan stops exactly when
\* some match so far has a similarity above 0.8, and otherwise goes on with
\* the next batch.
C18_EarlyExitAbove80 ==
    [][\A p \in Procs :
         (process_batch_gather(p) /\ NotLastBatch(p))
            => IF SomeAbove(query'[p].all_matches, 8, 10)
               THEN query'[p].pc = "reply"
               ELSE NextBatchScanned(p)]_vars

\* the scan stopped before the last batch with a best match above 0.8 and
\* not above 0.9
C18_Witness ==
    \E p \in Procs :
       /\ query[p].pc = "reply"
       /\ query[p].i + batch_size < Len(query[p].chats)
       /\ SomeAbove(query[p].all_matches, 8, 10)
       /\ ~SomeAbove(query[p].all_matches, 9, 10)


\* C19: a chat leaves the directory only in a step in which bot.get_chat
\* answers ChannelInvalid or CHANNEL_PRIVATE for a candidate with that chat's
\* id, and that step removes no other chat; no chat ever enters the
\* directory.  Every step of get_invite_link (cache hit, exported link,
\* FloodWait, ChatAdminRequired, any other failure, wake-up) and every other
\* failure of bot.get_chat leave the set of directory entries as it is.
C19_OnlyPermanentFailurePrunes ==
    [][/\ \A c \in Chats :
            db'[c].present # db[c].present
               => /\ db[c].present
                  /\ \E pk \in Tasks :
                        /\ T(pk).id = c
                        /\ \/ process_channel_get_chat(pk[1], pk[2],
                                                       "ChannelInvalid", Txt_Abce)
                           \/ process_channel_get_chat(pk[1], pk[2],
                                                       "CHANNEL_PRIVATE", Txt_Abce)
                  /\ \A c2 \in Chats \ {c} : db'[c2].present = db[c2].present
       /\ \A pk \in Tasks :
            (\/ /\ T(pk).pc \in {"acquire", "cache", "invoke", "sleep"}
                /\ task'[pk[1]][pk[2]] # T(pk)
             \/ process_channel_get_chat(pk[1], pk[2], "RPCError", Txt_Abce)
             \/ process_channel_get_chat(pk[1], pk[2], "Exception", Txt_Abce))
              => \A c \in Chats : db'[c].present = db[c].present]_vars

\* chat 3 was removed after a permanent failure of bot.get_chat and the
\* other chats are still listed, one of them with a newly exported link
C19_Witness ==
    /\ ~db[3].present
    /\ db[1].present
    /\ db[2].present
    /\ db[2].link = NewLink(2)


\* the chat ids of the matches of the sequence all
MatchIds(all) == {all[n].id : n \in 1..Len(all)}

\* C20: under the fair event loop every scan that was started ends, with one
\* outcome (match, no match or error) that never changes afterwards, and every
\* get_invite_link call waiting for a slot gets one, so that eventually no
\* scan is running and no call is waiting; a scan gives each listed chat to
\* one coroutine of one batch only, the batches advancing through the listing.
C20_EveryScanEnds ==
    /\ [](\A p \in Procs :
            LET q == query[p]
            IN /\ \A m, n \in 1..Len(q.chats) : q.chats[m] = q.chats[n] => m = n
               /\ \A m, n \in 1..Len(q.all_matches) :
                     q.all_matches[m].id = q.all_matches[n].id => m = n
               /\ q.pc = "gather" =>
                     /\ MatchIds(q.all_matches) \subseteq {q.chats[m] : m \in 1..q.i}
                     /\ \A k \in Slots :
                           IF q.i + k <= Len(q.chats)
                           THEN /\ task[p][k].pc # "off"
                                /\ task[p][k].id = q.chats[q.i + k]
                           ELSE task[p][k].pc = "off"
               /\ q.pc # "gather" => \A k \in Slots : task[p][k].pc = "off"
               /\ q.pc = "done" => q.outcome \in {"match", "no_match", "error"})
    /\ [][\A p \in Procs :
            /\ query[p].pc = "done" => query'[p] = query[p]
            /\ query[p].pc = "gather" =>
                  \/ query'[p].i = query[p].i
                  \/ /\ query'[p].i = query[p].i + batch_size
                     /\ query'[p].pc = "gather"]_vars
    /\ <>[](/\ \A p \in Procs : query[p].pc \in {"idle", "done"}
            /\ \A pk \in Tasks : T(pk).pc # "acquire")

\* a call waits for a slot while the three slots are taken, one of them by a
\* call sleeping after FloodWait
C20_Witness ==
    /\ locked(request_semaphore)
    /\ \E pk \in Tasks : T(pk).pc = "acquire"
    /\ \E pk \in Tasks : T(pk).pc = "sleep"

====
